---- MODULE Spec2Model ----
(***************************************************************************)
(* A model of the OCR worker (src/ocr-worker/main.py): the /process-pdf    *)
(* handler, the Tabula table extractor, the three text backends, the two   *)
(* normalizers and the quality scorer.                                     *)
(*                                                                         *)
(* Python strings are sequences of one-character strings, so that          *)
(* split/join/replace/upper are computed as Python computes them.          *)
(***************************************************************************)
EXTENDS Integers, Sequences, FiniteSets, TLC

VARIABLES
    pc,                 \* position of the running operation
    config,             \* module globals GOOGLE_CLOUD_AVAILABLE, USE_DOCUMENT_AI
    request,            \* the HTTP request being served
    pdf_data,           \* process_pdf: the PDF bytes (their length), once bound
    tmp_file,           \* the NamedTemporaryFile on disk: "absent" | "present"
    created,            \* whether this request ever created the temporary file
    tables,             \* process_pdf: result of extract_tables_with_tabula
    text_blocks,        \* process_pdf: result of the selected text backend
    extraction_method,  \* process_pdf: composite tag
    result,             \* process_pdf: the envelope built at lines 90-102
    exc,                \* the exception in flight (its message), or NoExc
    calls,              \* which extractors this request invoked
    response,           \* what the caller receives: [status, body]
    arg,                \* input of the function under check
    res,                \* its result
    res2                \* the result of applying it again

vars == <<pc, config, request, pdf_data, tmp_file, created, tables, text_blocks,
          extraction_method, result, exc, calls, response, arg, res, res2>>

procVars == <<config, request, pdf_data, tmp_file, created, tables, text_blocks,
              extraction_method, result, exc, calls, response>>

fnVars == <<arg, res, res2>>

\* Python's None (a one-element sequence that is no character, so that it
\* compares with strings), and "no value bound yet"
None == <<"None_value">>
Unbound == "unbound"
NoExc == <<"no_exception">>

\* pdf_data before it is bound
NoData == -1

(***************************************************************************)
(* Strings                                                                 *)
(***************************************************************************)

Whitespace == {" ", "\t", "\n"}

DigitChars == <<"0", "1", "2", "3", "4", "5", "6", "7", "8", "9">>

LowerLetters == <<"a", "b", "c", "d", "e", "f", "g", "h", "i", "j", "k", "l", "m",
                  "n", "o", "p", "q", "r", "s", "t", "u", "v", "w", "x", "y", "z">>

UpperLetters == <<"A", "B", "C", "D", "E", "F", "G", "H", "I", "J", "K", "L", "M",
                  "N", "O", "P", "Q", "R", "S", "T", "U", "V", "W", "X", "Y", "Z">>

upper_char(c) ==
    IF \E i \in 1..26 : LowerLetters[i] = c
    THEN UpperLetters[CHOOSE i \in 1..26 : LowerLetters[i] = c]
    ELSE c

lower_char(c) ==
    IF \E i \in 1..26 : UpperLetters[i] = c
    THEN LowerLetters[CHOOSE i \in 1..26 : UpperLetters[i] = c]
    ELSE c

\* str.upper(), str.lower()
str_upper(s) == IF s = <<>> THEN <<>> ELSE [i \in 1..Len(s) |-> upper_char(s[i])]

str_lower(s) == IF s = <<>> THEN <<>> ELSE [i \in 1..Len(s) |-> lower_char(s[i])]

\* str.split() with no separator: the maximal runs of non-whitespace, taken
\* one word at a time from index i on
RECURSIVE SplitFrom(_, _)
SplitFrom(s, i) ==
    IF ~\E j \in i..Len(s) : s[j] \notin Whitespace THEN <<>>
    ELSE LET first == CHOOSE j \in i..Len(s) :
                          /\ s[j] \notin Whitespace
                          /\ \A m \in i..(j - 1) : s[m] \in Whitespace
             last == CHOOSE j \in first..Len(s) :
                         /\ \A m \in first..j : s[m] \notin Whitespace
                         /\ j = Len(s) \/ s[j + 1] \in Whitespace
         IN  <<SubSeq(s, first, last)>> \o SplitFrom(s, last + 1)

str_split(s) == SplitFrom(s, 1)

\* ' '.join(words)
RECURSIVE str_join(_)
str_join(words) ==
    IF words = <<>> THEN <<>>
    ELSE IF Len(words) = 1 THEN words[1]
    ELSE words[1] \o <<" ">> \o str_join(Tail(words))

\* str.strip()
RECURSIVE str_lstrip(_)
str_lstrip(s) ==
    IF s # <<>> /\ s[1] \in Whitespace THEN str_lstrip(Tail(s)) ELSE s

RECURSIVE str_rstrip(_)
str_rstrip(s) ==
    IF s # <<>> /\ s[Len(s)] \in Whitespace
    THEN str_rstrip(SubSeq(s, 1, Len(s) - 1))
    ELSE s

str_strip(s) == str_rstrip(str_lstrip(s))

\* old in s   (old is never empty here)
str_contains(old, s) ==
    \E i \in 1..(Len(s) - Len(old) + 1) : SubSeq(s, i, i + Len(old) - 1) = old

\* s.replace(old, new): every non-overlapping occurrence, left to right
RECURSIVE ReplaceFrom(_, _, _, _)
ReplaceFrom(s, i, old, new) ==
    IF i > Len(s) THEN <<>>
    ELSE IF i + Len(old) - 1 <= Len(s) /\ SubSeq(s, i, i + Len(old) - 1) = old
         THEN new \o ReplaceFrom(s, i + Len(old), old, new)
         ELSE <<s[i]>> \o ReplaceFrom(s, i + 1, old, new)

str_replace(s, old, new) == ReplaceFrom(s, 1, old, new)

\* word.isdigit()
str_isdigit(word) ==
    /\ word # <<>>
    /\ \A i \in 1..Len(word) : \E d \in 1..10 : DigitChars[d] = word[i]

\* s[:n]
str_prefix(s, n) == IF Len(s) <= n THEN s ELSE SubSeq(s, 1, n)

\* str(n) for a natural number n
RECURSIVE str_of_int(_)
str_of_int(n) ==
    IF n < 10 THEN <<DigitChars[n + 1]>>
    ELSE str_of_int(n \div 10) \o <<DigitChars[(n % 10) + 1]>>

(***************************************************************************)
(* The normalizers                                                         *)
(***************************************************************************)

\* the replacements dict of clean_technical_cell, in insertion order
replacements ==
    << << <<"T", "Y", "P", ".">>, <<"t", "y", "p", "i", "c", "a", "l">> >>,
       << <<"M", "I", "N", ".">>, <<"m", "i", "n", "i", "m", "u", "m">> >>,
       << <<"M", "A", "X", ".">>, <<"m", "a", "x", "i", "m", "u", "m">> >>,
       << <<"N", "O", "M", ".">>, <<"n", "o", "m", "i", "n", "a", "l">> >>,
       << <<"T", "Y", "P">>, <<"t", "y", "p", "i", "c", "a", "l">> >>,
       << <<"M", "I", "N">>, <<"m", "i", "n", "i", "m", "u", "m">> >>,
       << <<"M", "A", "X">>, <<"m", "a", "x", "i", "m", "u", "m">> >>,
       << <<"N", "O", "M">>, <<"n", "o", "m", "i", "n", "a", "l">> >> >>

\* the loop over replacements.items(); cleaned_upper is computed once, before it
RECURSIVE ApplyReplacements(_, _, _)
ApplyReplacements(cleaned, cleaned_upper, k) ==
    IF k > Len(replacements) THEN cleaned
    ELSE LET old == replacements[k][1]
             new == replacements[k][2]
             after == IF str_contains(old, cleaned_upper)
                      THEN str_replace(str_replace(cleaned, str_lower(old), new),
                                       old, new)
                      ELSE cleaned
         IN  ApplyReplacements(after, cleaned_upper, k + 1)

clean_technical_cell(cell_text) ==
    IF cell_text = <<>> THEN <<>>
    ELSE LET cleaned == str_join(str_split(cell_text))
         IN  ApplyReplacements(cleaned, str_upper(cleaned), 1)

\* [word for word in words if len(word) > 1 or word.isdigit()]
RECURSIVE filtered_words(_)
filtered_words(words) ==
    IF words = <<>> THEN <<>>
    ELSE (IF Len(words[1]) > 1 \/ str_isdigit(words[1]) THEN <<words[1]>> ELSE <<>>)
         \o filtered_words(Tail(words))

clean_ocr_text(text) ==
    IF text = None \/ text = <<>> THEN <<>>
    ELSE LET cleaned == str_join(str_split(str_strip(text)))
         IN  str_join(filtered_words(str_split(cleaned)))

(***************************************************************************)
(* The normalizers applied once and again                                  *)
(***************************************************************************)

\* longest string drawn for the normalizers
MaxStrLen == 4

CleanAlphabet == {" ", "a", "7", "T", "Y", "P", "."}

RECURSIVE StringsUpTo(_, _)
StringsUpTo(alphabet, n) ==
    IF n = 0 THEN {<<>>}
    ELSE LET shorter == StringsUpTo(alphabet, n - 1)
         IN  shorter \cup {Append(s, c) : s \in shorter, c \in alphabet}

\* the cells of the specification's examples: "4.5 TYP", "TYP.", "max 5 a"
SampleCells ==
    { <<"4", ".", "5", " ", "T", "Y", "P">>,
      <<"T", "Y", "P", ".">>,
      <<"m", "a", "x", " ", "5", " ", "a">> }

CleanInputs == StringsUpTo(CleanAlphabet, MaxStrLen) \cup SampleCells

Normalizers == {"clean_ocr_text", "clean_technical_cell"}

normalize(fn, s) ==
    IF fn = "clean_ocr_text" THEN clean_ocr_text(s) ELSE clean_technical_cell(s)

IdleProc ==
    /\ config = Unbound
    /\ request = Unbound
    /\ pdf_data = NoData
    /\ tmp_file = "absent"
    /\ created = FALSE
    /\ tables = Unbound
    /\ text_blocks = Unbound
    /\ extraction_method = Unbound
    /\ result = Unbound
    /\ exc = NoExc
    /\ calls = {}
    /\ response = Unbound

InitClean ==
    /\ pc = "clean"
    /\ arg \in [fn : Normalizers, s : CleanInputs]
    /\ res = Unbound
    /\ res2 = Unbound
    /\ IdleProc

\* normalize a raw string
CleanOnce ==
    /\ pc = "clean"
    /\ res' = normalize(arg.fn, arg.s)
    /\ pc' = "cleaned"
    /\ UNCHANGED <<arg, res2>>
    /\ UNCHANGED procVars

\* normalize the already-normalized string
CleanAgain ==
    /\ pc = "cleaned"
    /\ res2' = normalize(arg.fn, res)
    /\ pc' = "cleaned_again"
    /\ UNCHANGED <<arg, res>>
    /\ UNCHANGED procVars

NextClean == CleanOnce \/ CleanAgain

SpecClean == InitClean /\ [][NextClean]_vars

\* C10: normalization is idempotent: normalizing an already-normalized
\* string (text or cell) yields the same string.
C10_Idempotent == pc = "cleaned_again" => res2 = res

\* the text normalizer alone: normalizing its own output changes nothing
OcrTextIdempotent ==
    (pc = "cleaned_again" /\ arg.fn = "clean_ocr_text") => res2 = res

(***************************************************************************)
(* The table extractor (extract_tables_with_tabula)                        *)
(***************************************************************************)

\* a float NaN cell of a DataFrame: pd.notna(value) is False
NaN == <<"NaN_value">>

\* what tabula.read_pdf does for one strategy: raise, or return DataFrames
Raised == [raised |-> TRUE, dfs |-> <<>>]

Returned(dfs) == [raised |-> FALSE, dfs |-> dfs]

\* the 'strategy' entries of extraction_strategies, in list order
extraction_strategies == <<"standard", "lattice", "stream">>

\* the placeholder strings of line 204: ['nan', 'none', '']
placeholders == { <<"n", "a", "n">>, <<"n", "o", "n", "e">>, <<>> }

\* df.empty: no rows or no columns
df_empty(df) == df = <<>> \/ df[1] = <<>>

\* line 175 with >= for >: a later strategy with as many tables wins
more_tables_ties_last(dfs, all_dfs) == dfs # <<>> /\ Len(dfs) >= Len(all_dfs)

\* line 175: if dfs and len(dfs) > len(all_dfs)
more_tables(dfs, all_dfs) == dfs # <<>> /\ Len(dfs) > Len(all_dfs)

\* lines 169-182: the loop over the strategies; read_pdf[name] is what
\* tabula.read_pdf does for that strategy
RECURSIVE try_strategies(_, _, _, _)
try_strategies(read_pdf, k, all_dfs, successful_strategy) ==
    IF k > Len(extraction_strategies)
    THEN [all_dfs |-> all_dfs, successful_strategy |-> successful_strategy]
    ELSE LET strategy_name == extraction_strategies[k]
             dfs == read_pdf[strategy_name].dfs
         IN  IF read_pdf[strategy_name].raised
             THEN try_strategies(read_pdf, k + 1, all_dfs, successful_strategy)
             ELSE IF more_tables(dfs, all_dfs)
                  THEN try_strategies(read_pdf, k + 1, dfs, strategy_name)
                  ELSE try_strategies(read_pdf, k + 1, all_dfs, successful_strategy)

\* lines 199-212: the kept cells of one row; col_idx counts from 1 here and
\* the cell records the 0-based column
RECURSIVE row_cells(_, _, _)
row_cells(row, col_idx, is_header) ==
    IF col_idx > Len(row) THEN <<>>
    ELSE LET value == row[col_idx]
             cell_text == IF value # NaN THEN str_strip(value) ELSE <<>>
         IN  (IF cell_text # <<>> /\ str_lower(cell_text) \notin placeholders
              THEN << [text |-> clean_technical_cell(cell_text),
                       col |-> col_idx - 1,
                       is_header |-> is_header] >>
              ELSE <<>>)
             \o row_cells(row, col_idx + 1, is_header)

\* line 215: if non_empty_cells >= 1
keep_row(non_empty_cells) == non_empty_cells >= 1

\* lines 195-221: the kept rows of one DataFrame; row_idx is 0-based
RECURSIVE table_rows(_, _, _)
table_rows(df, row_idx, header_detected) ==
    IF row_idx >= Len(df) THEN <<>>
    ELSE LET is_header == row_idx = 0 /\ ~header_detected
             cells == row_cells(df[row_idx + 1], 1, is_header)
             non_empty_cells == Len(cells)
         IN  IF keep_row(non_empty_cells)
             THEN << [cells |-> cells,
                      row_type |-> IF is_header THEN "header" ELSE "data"] >>
                  \o table_rows(df, row_idx + 1, header_detected \/ row_idx = 0)
             ELSE table_rows(df, row_idx + 1, header_detected)

\* line 231: len([r for r in rows if r["row_type"] == "data"])
count_data_rows(rows) == Cardinality({j \in 1..Len(rows) : rows[j].row_type = "data"})

\* line 224 with >= 1 for >= 2: a lone row makes a table
keep_table_one_row(rows) == rows # <<>> /\ Len(rows) >= 1

\* line 224: if rows and len(rows) >= 2
keep_table(rows) == rows # <<>> /\ Len(rows) >= 2

\* lines 187-233: the loop over enumerate(all_dfs); i is 0-based
RECURSIVE process_tables(_, _, _)
process_tables(all_dfs, i, successful_strategy) ==
    IF i >= Len(all_dfs) THEN <<>>
    ELSE LET df == all_dfs[i + 1]
             rows == table_rows(df, 0, FALSE)
         IN  (IF ~df_empty(df) /\ keep_table(rows)
              THEN << [page |-> i + 1,
                       table_id |-> <<"tabula", successful_strategy, i>>,
                       rows |-> rows,
                       extraction_method |-> <<"tabula", successful_strategy>>,
                       columns |-> Len(rows[1].cells),
                       data_rows |-> count_data_rows(rows)] >>
              ELSE <<>>)
             \o process_tables(all_dfs, i + 1, successful_strategy)

extract_tables_with_tabula(read_pdf) ==
    LET best == try_strategies(read_pdf, 1, <<>>, None)
    IN  process_tables(best.all_dfs, 0, best.successful_strategy)

(***************************************************************************)
(* The table extractor on the answers of tabula.read_pdf                   *)
(***************************************************************************)

\* most DataFrames one strategy returns
MaxTables == 3

\* most cells (rows times columns) of an enumerated DataFrame
MaxCells == 6

RECURSIVE SeqsUpTo(_, _)
SeqsUpTo(S, n) ==
    IF n = 0 THEN {<<>>}
    ELSE LET shorter == SeqsUpTo(S, n - 1)
         IN  shorter \cup {Append(q, x) : q \in shorter, x \in S}

\* raw cells: a float NaN, the string "NaN", a blank string, a real cell
CellValues == { NaN, <<"N", "a", "N">>, <<" ">>, <<" ", "T", "Y", "P">> }

GridShapes ==
    {sh \in (1..MaxCells) \X (1..MaxCells) : sh[1] * sh[2] <= MaxCells}

\* every DataFrame of at most MaxCells cells, and the one without rows
AllGrids ==
    {<<>>} \cup UNION {[1..sh[1] -> [1..sh[2] -> CellValues]] : sh \in GridShapes}

\* two rows with a real cell each: emitted as a table
GoodGrid == << << <<"V", "c", "c">>, NaN >>, << <<"5">>, <<"T", "Y", "P">> >> >>

\* two rows of which one is all placeholders: dropped
SparseGrid == << << NaN, <<"n", "a", "n">> >>, << <<"5">>, <<"N", "o", "n", "e">> >> >>

GridPool == {GoodGrid, SparseGrid}

Strategies == {extraction_strategies[k] : k \in 1..Len(extraction_strategies)}

\* every mix of raising and returning strategies, over the pool
SelectionInputs ==
    [Strategies -> {Raised} \cup {Returned(d) : d \in SeqsUpTo(GridPool, MaxTables)}]

\* one enumerated DataFrame, found by the standard strategy alone
GridInputs ==
    {[standard |-> Returned(<<g>>), lattice |-> Raised, stream |-> Returned(<<>>)] :
        g \in AllGrids}

InitTables ==
    /\ pc = "tables"
    /\ arg \in SelectionInputs \cup GridInputs
    /\ res = Unbound
    /\ res2 = Unbound
    /\ IdleProc

\* one call of extract_tables_with_tabula
TablesCall ==
    /\ pc = "tables"
    /\ res' = extract_tables_with_tabula(arg)
    /\ pc' = "tables_done"
    /\ UNCHANGED <<arg, res2>>
    /\ UNCHANGED procVars

NextTables == TablesCall

SpecTables == InitTables /\ [][NextTables]_vars

\* the number of raw tables of strategy number k; a raising strategy has none
RawCount(read_pdf, k) ==
    IF read_pdf[extraction_strategies[k]].raised THEN 0
    ELSE Len(read_pdf[extraction_strategies[k]].dfs)

\* the strategies that returned at least one raw table
Productive(read_pdf) == {k \in 1..Len(extraction_strategies) : RawCount(read_pdf, k) > 0}

\* the first strategy, in evaluation order, of the greatest raw count
FirstGreatest(read_pdf) ==
    CHOOSE k \in Productive(read_pdf) :
        /\ \A j \in Productive(read_pdf) : RawCount(read_pdf, j) <= RawCount(read_pdf, k)
        /\ \A j \in Productive(read_pdf) : j < k => RawCount(read_pdf, j) < RawCount(read_pdf, k)

\* C6: the extractor retains the raw tables of exactly one strategy, the one
\* of strictly greatest raw count with ties going to the strategy evaluated
\* first (standard, lattice, stream); a raising strategy is never selected;
\* when no strategy returns a table the result is the empty list; every
\* emitted table carries the selected strategy's tag.
C6_StrategySelection ==
    pc = "tables_done" =>
        IF Productive(arg) = {}
        THEN res = <<>>
        ELSE LET sel == extraction_strategies[FirstGreatest(arg)]
             IN  /\ ~arg[sel].raised
                 /\ res = process_tables(arg[sel].dfs, 0, sel)
                 /\ \A i \in 1..Len(res) :
                        /\ res[i].extraction_method = <<"tabula", sel>>
                        /\ res[i].table_id[2] = sel

\* counts {standard: 1, lattice: 3, stream: 2}: lattice alone is emitted
C6_LatticeSelected ==
    /\ pc = "tables_done"
    /\ ~arg["standard"].raised /\ Len(arg["standard"].dfs) = 1
    /\ ~arg["lattice"].raised /\ Len(arg["lattice"].dfs) = 3
    /\ ~arg["stream"].raised /\ Len(arg["stream"].dfs) = 2
    /\ Len(res) = 3
    /\ \A i \in 1..Len(res) : res[i].extraction_method = <<"tabula", "lattice">>

\* C7: an emitted Table never has fewer than 2 rows and never has a row with
\* zero non-empty cells, whatever mix of null, 'nan'/'none'/blank and real
\* cells the raw grid holds.
C7_TableThreshold ==
    pc = "tables_done" =>
        \A i \in 1..Len(res) :
            /\ Len(res[i].rows) >= 2
            /\ \A r \in 1..Len(res[i].rows) :
                   /\ Len(res[i].rows[r].cells) >= 1
                   /\ \A c \in 1..Len(res[i].rows[r].cells) :
                          res[i].rows[r].cells[c].text # <<>>

\* a grid of three rows emitted as a table of two: one row had no real cell
C7_RowDropped ==
    /\ pc = "tables_done"
    /\ ~arg["standard"].raised /\ Len(arg["standard"].dfs) = 1
    /\ Len(arg["standard"].dfs[1]) = 3
    /\ Len(res) = 1
    /\ Len(res[1].rows) = 2

\* the first row of the raw grid has a real cell, so line 215 keeps it
FirstRowKept(df) == ~df_empty(df) /\ keep_row(Len(row_cells(df[1], 1, TRUE)))

\* exactly one header row, the first, followed by data rows only
HeaderThenData(t) ==
    /\ t.rows[1].row_type = "header"
    /\ \A r \in 2..Len(t.rows) : t.rows[r].row_type = "data"
    /\ Len(t.rows) >= 2
    /\ t.data_rows = Len(t.rows) - 1

\* C11: in every emitted Table the first kept row is tagged header and every
\* later row is tagged data, so the table has exactly one header row followed
\* by at least one data row and data_rows = number of rows - 1, also when the
\* first row(s) of the raw grid were dropped for having no non-empty cell.
C11_HeaderThenData ==
    pc = "tables_done" => \A i \in 1..Len(res) : HeaderThenData(res[i])

\* the same for the tables whose raw grid keeps its first row
HeaderWhenFirstRowKept ==
    (pc = "tables_done" /\ Productive(arg) # {}) =>
        LET dfs == arg[extraction_strategies[FirstGreatest(arg)]].dfs
        IN  \A i \in 1..Len(res) :
                FirstRowKept(dfs[res[i].page]) => HeaderThenData(res[i])

(***************************************************************************)
(* The text backends                                                      *)
(***************************************************************************)

\* line 296: f"Vision API extraction failed for page {page_num}: {str(e)}"
vision_page_failed_1 ==
    <<"V", "i", "s", "i", "o", "n", " ", "A", "P", "I", " ", "e", "x", "t",
    "r", "a", "c", "t", "i", "o", "n", " ", "f", "a", "i", "l", "e", "d", " ",
    "f", "o", "r", " ", "p", "a", "g", "e", " ">>

\* line 290: f"Vision API error: {response.error.message}"
vision_api_error ==
    <<"V", "i", "s", "i", "o", "n", " ", "A", "P", "I", " ", "e", "r", "r",
    "o", "r", ":", " ">>

\* line 304: f"Could not process with Vision API: {str(e)}"
vision_could_not ==
    <<"C", "o", "u", "l", "d", " ", "n", "o", "t", " ", "p", "r", "o", "c",
    "e", "s", "s", " ", "w", "i", "t", "h", " ", "V", "i", "s", "i", "o", "n",
    " ", "A", "P", "I", ":", " ">>

\* line 378: f"Could not process with Document AI: {str(e)}"
document_ai_could_not ==
    <<"C", "o", "u", "l", "d", " ", "n", "o", "t", " ", "p", "r", "o", "c",
    "e", "s", "s", " ", "w", "i", "t", "h", " ", "D", "o", "c", "u", "m", "e",
    "n", "t", " ", "A", "I", ":", " ">>

\* line 448: f"PyPDF2 extraction failed for page {page_num}: {str(e)}"
pypdf2_page_failed_1 ==
    <<"P", "y", "P", "D", "F", "2", " ", "e", "x", "t", "r", "a", "c", "t",
    "i", "o", "n", " ", "f", "a", "i", "l", "e", "d", " ", "f", "o", "r", " ",
    "p", "a", "g", "e", " ">>

\* line 456: f"Could not process with PyPDF2: {str(e)}"
pypdf2_could_not ==
    <<"C", "o", "u", "l", "d", " ", "n", "o", "t", " ", "p", "r", "o", "c",
    "e", "s", "s", " ", "w", "i", "t", "h", " ", "P", "y", "P", "D", "F", "2",
    ":", " ">>

\* line 119: f"Processing failed: {str(e)}"
processing_failed ==
    <<"P", "r", "o", "c", "e", "s", "s", "i", "n", "g", " ", "f", "a", "i",
    "l", "e", "d", ":", " ">>

\* line 120: f"Error: {str(e)}"
error_prefix ==
    <<"E", "r", "r", "o", "r", ":", " ">>

\* line 353: the markers around a table's text
table_open ==
    <<"\n", "[", "T", "A", "B", "L", "E", "]", "\n">>

table_close ==
    <<"\n", "[", "/", "T", "A", "B", "L", "E", "]", "\n">>

\* len(cleaned_text) > 20: the shortest page text that is kept is longer
MinTextLen == 20

\* cleaned_text[:4000]
MaxTextLen == 4000

\* confidences are kept in hundredths: 0.8, 0.7, 0.95, 1.0
DefaultConfidence == 80

Pypdf2Confidence == 70

DocumentAiConfidence == 95

FullConfidence == 100

RECURSIVE SumSeq(_)
SumSeq(q) == IF q = <<>> THEN 0 ELSE q[1] + SumSeq(Tail(q))

\* calculate_vision_confidence: annotations is the full-text annotation
\* followed by the word annotations, each with its confidence (hundredths;
\* the mean is taken with integer division)
calculate_vision_confidence(annotations) ==
    IF annotations = <<>> \/ Len(annotations) < 2 THEN DefaultConfidence
    ELSE LET word_annotations == Tail(annotations)
             total_confidence == SumSeq([i \in 1..Len(word_annotations) |->
                                            word_annotations[i].confidence])
             mean == total_confidence \div Len(word_annotations)
         IN  IF mean < FullConfidence THEN mean ELSE FullConfidence

\* an error-tagged block: page, text and extraction_method only
error_block(page_num, text) ==
    [page |-> page_num, text |-> text, extraction_method |-> "error"]

\* lines 260-298: one page of the Vision loop. pg.raises: rendering or the
\* API call raised pg.message; otherwise pg.texts are response.text_annotations
\* and pg.message is response.error.message ("" when unset)
vision_page(page_num, pg) ==
    IF pg.raises
    THEN << error_block(page_num,
                vision_page_failed_1 \o str_of_int(page_num) \o <<":", " ">> \o pg.message) >>
    ELSE LET cleaned_text == IF pg.texts # <<>>
                             THEN clean_ocr_text(pg.texts[1].description)
                             ELSE <<>>
             detected ==
                 IF pg.texts # <<>> /\ cleaned_text # <<>> /\ Len(cleaned_text) > MinTextLen
                 THEN << [page |-> page_num,
                          text |-> str_prefix(cleaned_text, MaxTextLen),
                          extraction_method |-> "google_vision_api",
                          confidence |-> calculate_vision_confidence(pg.texts)] >>
                 ELSE <<>>
             \* lines 289-290 run after the block was appended; the handler
             \* of line 292 then appends the error block of the same page
             failed ==
                 IF pg.message # <<>>
                 THEN << error_block(page_num,
                             vision_page_failed_1 \o str_of_int(page_num) \o <<":", " ">>
                                 \o vision_api_error \o pg.message) >>
                 ELSE <<>>
         IN  detected \o failed

RECURSIVE vision_pages(_, _)
vision_pages(images, page_num) ==
    IF page_num > Len(images) THEN <<>>
    ELSE vision_page(page_num, images[page_num]) \o vision_pages(images, page_num + 1)

\* doc.fails: the client or convert_from_path raised doc.message before the
\* loop; doc.pages: what each rendered page meets
extract_text_with_vision_api(doc) ==
    IF doc.fails
    THEN << error_block(1, vision_could_not \o doc.message) >>
    ELSE vision_pages(doc.pages, 1)

\* lines 429-450: one page of the PyPDF2 loop. pg.raises: page.extract_text()
\* raised pg.message; otherwise pg.text is what it returned
pypdf2_page(page_num, pg) ==
    IF pg.raises
    THEN << error_block(page_num,
                pypdf2_page_failed_1 \o str_of_int(page_num) \o <<":", " ">> \o pg.message) >>
    ELSE LET cleaned_text == clean_ocr_text(pg.text)
         IN  IF cleaned_text # <<>> /\ Len(cleaned_text) > MinTextLen
             THEN << [page |-> page_num,
                      text |-> str_prefix(cleaned_text, MaxTextLen),
                      extraction_method |-> "pypdf2_fallback",
                      confidence |-> Pypdf2Confidence] >>
             ELSE <<>>

RECURSIVE pypdf2_pages(_, _)
pypdf2_pages(pages, page_num) ==
    IF page_num > Len(pages) THEN <<>>
    ELSE pypdf2_page(page_num, pages[page_num]) \o pypdf2_pages(pages, page_num + 1)

\* doc.fails: open() or PdfReader raised doc.message
extract_text_with_pypdf2(doc) ==
    IF doc.fails
    THEN << error_block(1, pypdf2_could_not \o doc.message) >>
    ELSE pypdf2_pages(doc.pages, 1)

\* document_text[start:end] of Python, indices from 0, clipped to the text
py_slice(text, start, end) ==
    LET stop == IF end < Len(text) THEN end ELSE Len(text)
    IN  IF start >= stop THEN <<>> ELSE SubSeq(text, start + 1, stop)

\* get_text_from_layout: layout is the list of text segments; an index of 0
\* is unset: the start is then 0 and the end the length of the text
RECURSIVE get_text_from_layout(_, _)
get_text_from_layout(document_text, layout) ==
    IF layout = <<>> THEN <<>>
    ELSE LET segment == layout[1]
             start_index == segment.start_index
             end_index == IF segment.end_index # 0 THEN segment.end_index
                          ELSE Len(document_text)
         IN  py_slice(document_text, start_index, end_index)
             \o get_text_from_layout(document_text, Tail(layout))

\* "\t".join(row_text)
RECURSIVE tab_join(_)
tab_join(words) ==
    IF words = <<>> THEN <<>>
    ELSE IF Len(words) = 1 THEN words[1]
    ELSE words[1] \o <<"\t">> \o tab_join(Tail(words))

\* extract_table_text_from_document_ai: table is its body_rows, a row its
\* cells' layouts
RECURSIVE extract_table_text_from_document_ai(_, _)
extract_table_text_from_document_ai(document_text, table) ==
    IF table = <<>> THEN <<>>
    ELSE LET row == table[1]
             row_text == [c \in 1..Len(row) |->
                             str_strip(get_text_from_layout(document_text, row[c]))]
         IN  tab_join(row_text) \o <<"\n">>
             \o extract_table_text_from_document_ai(document_text, Tail(table))

\* lines 343-347: the paragraphs of a page, each followed by a newline
RECURSIVE paragraphs_text(_, _)
paragraphs_text(document_text, paragraphs) ==
    IF paragraphs = <<>> THEN <<>>
    ELSE get_text_from_layout(document_text, paragraphs[1]) \o <<"\n">>
         \o paragraphs_text(document_text, Tail(paragraphs))

\* lines 350-353: the tables of a page between their markers
RECURSIVE tables_text(_, _)
tables_text(document_text, page_tables) ==
    IF page_tables = <<>> THEN <<>>
    ELSE table_open \o extract_table_text_from_document_ai(document_text, page_tables[1])
         \o table_close \o tables_text(document_text, Tail(page_tables))

\* lines 339-363: one page of the Document AI loop
document_ai_page(document_text, page_num, page) ==
    LET page_text == paragraphs_text(document_text, page.paragraphs)
                     \o tables_text(document_text, page.tables)
        cleaned_text == clean_ocr_text(page_text)
    IN  IF cleaned_text # <<>> /\ Len(cleaned_text) > MinTextLen
        THEN << [page |-> page_num,
                 text |-> str_prefix(cleaned_text, MaxTextLen),
                 extraction_method |-> "google_document_ai",
                 confidence |-> DocumentAiConfidence] >>
        ELSE <<>>

RECURSIVE document_ai_pages(_, _, _)
document_ai_pages(document_text, pages, page_num) ==
    IF page_num > Len(pages) THEN <<>>
    ELSE document_ai_page(document_text, page_num, pages[page_num])
         \o document_ai_pages(document_text, pages, page_num + 1)

\* doc.fails: the client or process_document raised doc.message; otherwise
\* doc.text and doc.pages are result.document
extract_text_with_document_ai(doc) ==
    IF doc.fails
    THEN << error_block(1, document_ai_could_not \o doc.message) >>
    ELSE IF doc.pages # <<>>
         THEN document_ai_pages(doc.text, doc.pages, 1)
         ELSE LET cleaned_text == clean_ocr_text(doc.text)
              IN  IF cleaned_text # <<>>
                  THEN << [page |-> 1,
                           text |-> str_prefix(cleaned_text, MaxTextLen),
                           extraction_method |-> "google_document_ai_fallback"] >>
                  ELSE <<>>

\* the backend of lines 76-85 applied to what it meets
extract_text(backend, doc) ==
    IF backend = "document_ai" THEN extract_text_with_document_ai(doc)
    ELSE IF backend = "vision_api" THEN extract_text_with_vision_api(doc)
    ELSE extract_text_with_pypdf2(doc)

(***************************************************************************)
(* The text backends on what the services and the PDF reader answer        *)
(***************************************************************************)

\* most pages of an enumerated document
MaxSeqPages == 5

\* unit repeated n times
Repeat(unit, n) ==
    IF n = 0 THEN <<>>
    ELSE [i \in 1..(n * Len(unit)) |-> unit[((i - 1) % Len(unit)) + 1]]

TextUnit == <<"V", "c", "c", " ">>

\* 23 characters once cleaned: kept, not substantial
MediumText == Repeat(TextUnit, 6)

\* 103 characters once cleaned: kept and substantial (over 100 characters)
LongText == Repeat(TextUnit, 26)

\* one-letter tokens only: nothing is left once cleaned
NoiseText == Repeat(<<"a", " ">>, 15)

\* str(e) of the exceptions raised here
Boom == <<"b", "o", "o", "m">>

\* text_annotations: the full text, then two words
Annotations(description) ==
    << [description |-> description, confidence |-> 0],
       [description |-> <<"V", "c", "c">>, confidence |-> 90],
       [description |-> <<"V", "c", "c">>, confidence |-> 70] >>

VisionPageOutcomes ==
    { [raises |-> TRUE, texts |-> <<>>, message |-> Boom],
      [raises |-> FALSE, texts |-> <<>>, message |-> <<>>],
      [raises |-> FALSE, texts |-> Annotations(MediumText), message |-> <<>>],
      [raises |-> FALSE, texts |-> Annotations(LongText), message |-> <<>>],
      [raises |-> FALSE, texts |-> <<>>, message |-> Boom],
      [raises |-> FALSE, texts |-> Annotations(MediumText), message |-> Boom] }

Pypdf2PageOutcomes ==
    { [raises |-> TRUE, text |-> <<>>, message |-> Boom],
      [raises |-> FALSE, text |-> <<>>, message |-> <<>>],
      [raises |-> FALSE, text |-> NoiseText, message |-> <<>>],
      [raises |-> FALSE, text |-> MediumText, message |-> <<>>],
      [raises |-> FALSE, text |-> LongText, message |-> <<>>] }

Segment(start_index, end_index) == [start_index |-> start_index, end_index |-> end_index]

\* pages of a Document AI document whose text is LongText: no content, one
\* paragraph of 24 characters, one paragraph that is the whole text, one
\* table of two rows
DocumentAiPageOutcomes ==
    { [paragraphs |-> <<>>, tables |-> <<>>],
      [paragraphs |-> << <<Segment(0, 24)>> >>, tables |-> <<>>],
      [paragraphs |-> << <<Segment(0, 0)>> >>, tables |-> <<>>],
      [paragraphs |-> <<>>,
       tables |-> << << << <<Segment(0, 4)>>, <<Segment(4, 12)>> >>,
                        << <<Segment(12, 16)>>, <<Segment(16, 28)>> >> >> >>] }

PerPageDocs(outcomes, n) ==
    {[fails |-> FALSE, message |-> <<>>, pages |-> pages] : pages \in SeqsUpTo(outcomes, n)}
    \cup {[fails |-> TRUE, message |-> Boom, pages |-> <<>>]}

DocumentAiDocs(n) ==
    {[fails |-> FALSE, message |-> <<>>, text |-> LongText, pages |-> pages] :
        pages \in SeqsUpTo(DocumentAiPageOutcomes, n)}
    \cup {[fails |-> FALSE, message |-> <<>>, text |-> <<>>, pages |-> <<>>],
          [fails |-> TRUE, message |-> Boom, text |-> <<>>, pages |-> <<>>]}

TextInputs ==
    {[backend |-> "vision_api", doc |-> d] : d \in PerPageDocs(VisionPageOutcomes, MaxSeqPages)}
    \cup {[backend |-> "pypdf2", doc |-> d] : d \in PerPageDocs(Pypdf2PageOutcomes, MaxSeqPages)}
    \cup {[backend |-> "document_ai", doc |-> d] : d \in DocumentAiDocs(MaxSeqPages)}

InitText ==
    /\ pc = "text"
    /\ arg \in TextInputs
    /\ res = Unbound
    /\ res2 = Unbound
    /\ IdleProc

\* one call of the text backend
TextCall ==
    /\ pc = "text"
    /\ res' = extract_text(arg.backend, arg.doc)
    /\ pc' = "text_done"
    /\ UNCHANGED <<arg, res2>>
    /\ UNCHANGED procVars

NextText == TextCall

SpecText == InitText /\ [][NextText]_vars

\* C8: the blocks a text backend returns are in strictly ascending page
\* order, at most one block per page.
C8_AscendingPages ==
    pc = "text_done" =>
        \A i \in 1..Len(res) : \A j \in 1..Len(res) : i < j => res[i].page < res[j].page

\* the blocks of page k
BlocksOfPage(blocks, k) == {i \in 1..Len(blocks) : blocks[i].page = k}

\* a page of a per-page backend failed: its processing raised, or the Vision
\* response carries an error message
PageFailed(pg) == pg.raises \/ pg.message # <<>>

\* a page that did not fail and whose cleaned text is long enough to be kept
PageUsable(backend, pg) ==
    /\ ~PageFailed(pg)
    /\ LET raw == IF backend = "pypdf2" THEN pg.text
                  ELSE IF pg.texts # <<>> THEN pg.texts[1].description ELSE <<>>
       IN  Len(clean_ocr_text(raw)) > 20

\* C9: in the per-page backends (Vision API, PyPDF2) a failure on page k
\* does not abort the document: page k yields a block with page = k tagged
\* error, every page that succeeds keeps its normal tag and text, and later
\* pages are still processed. A document whose page k fails and whose other
\* pages each produce a block (5 pages, page 3 failing) yields exactly as
\* many blocks as it has pages, only that of page k tagged error.
C9_PageFailureIsLocal ==
    (pc = "text_done" /\ arg.backend \in {"vision_api", "pypdf2"} /\ ~arg.doc.fails) =>
        LET pages == arg.doc.pages
        IN  /\ \A k \in 1..Len(pages) :
                   PageFailed(pages[k]) =>
                       \E i \in BlocksOfPage(res, k) : res[i].extraction_method = "error"
            /\ \A k \in 1..Len(pages) :
                   PageUsable(arg.backend, pages[k]) =>
                       \E i \in BlocksOfPage(res, k) :
                           /\ res[i].extraction_method # "error"
                           /\ res[i].text = clean_ocr_text(
                                  IF arg.backend = "pypdf2" THEN pages[k].text
                                  ELSE pages[k].texts[1].description)
            /\ \A k \in 1..Len(pages) :
                   (/\ PageFailed(pages[k])
                    /\ \A j \in 1..Len(pages) : j # k => PageUsable(arg.backend, pages[j])) =>
                       /\ Len(res) = Len(pages)
                       /\ \A i \in 1..Len(res) :
                              res[i].extraction_method = "error" <=> res[i].page = k

(***************************************************************************)
(* The quality scorer                                                      *)
(***************************************************************************)

\* scores are kept in thousandths, so that 1.0 is 1000 and the weighted sum,
\* with the weights 0.3, 0.4, 0.3 in tenths, is in ten-thousandths
ScoreOne == 1000

QualityOne == 10 * ScoreOne

\* len(block.get('text', '')) > 100
SubstantialLen == 100

\* lines 517, 518, 522 without min(1.0, ...)
uncapped(score) == score

\* min(1.0, score)
capped(score) == IF score < ScoreOne THEN score ELSE ScoreOne

\* block.get('text', '')
block_text(block) == IF "text" \in DOMAIN block THEN block.text ELSE <<>>

calculate_quality(blocks, tabs) ==
    IF blocks = <<>> /\ tabs = <<>> THEN 0
    ELSE LET text_score == capped((Len(blocks) * ScoreOne) \div 10)
             table_score == capped((Len(tabs) * ScoreOne) \div 5)
             valid_blocks == Cardinality({i \in 1..Len(blocks) :
                                             Len(block_text(blocks[i])) > SubstantialLen})
             content_score == capped((valid_blocks * ScoreOne) \div 8)
         IN  (text_score * 3) + (table_score * 4) + (content_score * 3)

(***************************************************************************)
(* The /process-pdf handler                                                *)
(***************************************************************************)

\* line 55: "No PDF provided"
no_pdf_provided ==
    <<"N", "o", " ", "P", "D", "F", " ", "p", "r", "o", "v", "i", "d", "e",
      "d">>

\* line 60: f"PDF too large: {len(pdf_data)} bytes > {MAX_PDF_SIZE} limit"
pdf_too_large ==
    <<"P", "D", "F", " ", "t", "o", "o", " ", "l", "a", "r", "g", "e", ":",
      " ">>

bytes_gt ==
    <<" ", "b", "y", "t", "e", "s", " ", ">", " ">>

limit_suffix ==
    <<" ", "l", "i", "m", "i", "t">>

\* line 113: "PDF processing failed"
pdf_processing_failed ==
    <<"P", "D", "F", " ", "p", "r", "o", "c", "e", "s", "s", "i", "n", "g",
      " ", "f", "a", "i", "l", "e", "d">>

\* lines 97-100: the four log lines
log_processed ==
    <<"P", "r", "o", "c", "e", "s", "s", "e", "d", " ">>

log_bytes ==
    <<" ", "b", "y", "t", "e", "s">>

log_found ==
    <<"F", "o", "u", "n", "d", " ">>

log_tables ==
    <<" ", "t", "a", "b", "l", "e", "s", " ", "v", "i", "a", " ", "T", "a",
      "b", "u", "l", "a">>

log_extracted ==
    <<"E", "x", "t", "r", "a", "c", "t", "e", "d", " ">>

log_blocks ==
    <<" ", "t", "e", "x", "t", " ", "b", "l", "o", "c", "k", "s", " ", "v",
      "i", "a", " ", "G", "o", "o", "g", "l", "e", " ", "C", "l", "o", "u",
      "d">>

log_using ==
    <<"U", "s", "i", "n", "g", " ", "e", "x", "t", "r", "a", "c", "t", "i",
      "o", "n", " ", "m", "e", "t", "h", "o", "d", ":", " ">>

\* lines 78, 81, 85: the composite tags
document_ai_tabula ==
    <<"d", "o", "c", "u", "m", "e", "n", "t", "_", "a", "i", "+", "t", "a",
      "b", "u", "l", "a">>

vision_api_tabula ==
    <<"v", "i", "s", "i", "o", "n", "_", "a", "p", "i", "+", "t", "a", "b",
      "u", "l", "a">>

pypdf2_tabula ==
    <<"p", "y", "p", "d", "f", "2", "+", "t", "a", "b", "u", "l", "a">>

\* line 29
MAX_PDF_SIZE == 100 * 1024 * 1024

\* the characters of a composite tag, for the log line
tag_chars(tag) ==
    CASE tag = "document_ai+tabula" -> document_ai_tabula
      [] tag = "vision_api+tabula" -> vision_api_tabula
      [] tag = "pypdf2+tabula" -> pypdf2_tabula

\* most pages of a document met while serving a request
MaxPages == 11

\* most DataFrames Tabula returns while serving a request
MaxProcTables == 6

\* lengths of the PDF a request carries or points at: empty, one byte, just
\* at the limit, just over it
Sizes == {0, 1, MAX_PDF_SIZE, MAX_PDF_SIZE + 1}

\* str(e) of an exception raised while serving a request
ExcMessages == {Boom}

\* the module globals of lines 15-18 and 33
Configs == [GOOGLE_CLOUD_AVAILABLE : BOOLEAN, USE_DOCUMENT_AI : BOOLEAN]

\* a request: a JSON body with or without the key pdf_url, or a multipart
\* form with or without the file pdf_data; size is the length of the PDF
\* behind the URL or in the form
Requests ==
    {[content_type |-> "json", pdf_url |-> TRUE, pdf_file |-> FALSE, size |-> n] : n \in Sizes}
    \cup {[content_type |-> "json", pdf_url |-> FALSE, pdf_file |-> FALSE, size |-> 0]}
    \cup {[content_type |-> "multipart", pdf_url |-> FALSE, pdf_file |-> TRUE, size |-> n] :
             n \in Sizes}
    \cup {[content_type |-> "multipart", pdf_url |-> FALSE, pdf_file |-> FALSE, size |-> 0]}

\* pages 1..n all meeting o1, but page k meeting o2
PatternPages(o1, o2, k, n) == [i \in 1..n |-> IF i = k THEN o2 ELSE o1]

\* the page sequences met while serving a request: up to MaxPages pages
\* alike, or alike but for page 3
ProcPageSeqs(outcomes) ==
    {<<>>} \cup {PatternPages(o1, o2, k, n) :
                    o1 \in outcomes, o2 \in outcomes, k \in {0, 3}, n \in 1..MaxPages}

ProcDocs(backend) ==
    IF backend = "document_ai"
    THEN {[fails |-> FALSE, message |-> <<>>, text |-> LongText, pages |-> pages] :
             pages \in ProcPageSeqs(DocumentAiPageOutcomes)}
         \cup {[fails |-> FALSE, message |-> <<>>, text |-> <<>>, pages |-> <<>>],
               [fails |-> TRUE, message |-> Boom, text |-> <<>>, pages |-> <<>>]}
    ELSE {[fails |-> FALSE, message |-> <<>>, pages |-> pages] :
             pages \in ProcPageSeqs(IF backend = "vision_api" THEN VisionPageOutcomes
                                    ELSE Pypdf2PageOutcomes)}
         \cup {[fails |-> TRUE, message |-> Boom, pages |-> <<>>]}

\* what Tabula answers while serving a request: n good tables by the
\* standard strategy, a failing lattice strategy, one sparse table by stream
ProcTabulaInputs ==
    {[standard |-> Returned(IF n = 0 THEN <<>> ELSE [i \in 1..n |-> GoodGrid]),
      lattice |-> Raised,
      stream |-> Returned(<<SparseGrid>>)] : n \in 0..MaxProcTables}

\* lines 76-85: the backend the module globals select
selected_backend(cfg) ==
    IF cfg.GOOGLE_CLOUD_AVAILABLE /\ cfg.USE_DOCUMENT_AI THEN "document_ai"
    ELSE IF cfg.GOOGLE_CLOUD_AVAILABLE THEN "vision_api"
    ELSE "pypdf2"

composite_tag(backend) ==
    IF backend = "document_ai" THEN "document_ai+tabula"
    ELSE IF backend = "vision_api" THEN "vision_api+tabula"
    ELSE "pypdf2+tabula"

\* max(1, len(text_blocks))
page_count(blocks) == IF Len(blocks) > 1 THEN Len(blocks) ELSE 1

\* lines 90-102: the envelope
build_result(data_len, tabs, blocks, method) ==
    [pages |-> page_count(blocks),
     extraction_method |-> method,
     extraction_quality |-> calculate_quality(blocks, tabs),
     tables |-> tabs,
     text_blocks |-> blocks,
     logs |-> << log_processed \o str_of_int(data_len) \o log_bytes,
                 log_found \o str_of_int(Len(tabs)) \o log_tables,
                 log_extracted \o str_of_int(Len(blocks)) \o log_blocks,
                 log_using \o tag_chars(method) >>]

\* lines 112-121: the degraded envelope for str(e) = message
degraded_envelope(message) ==
    [error |-> pdf_processing_failed,
     message |-> message,
     pages |-> 1,
     extraction_method |-> "error",
     extraction_quality |-> 0,
     tables |-> <<>>,
     text_blocks |-> << [page |-> 1, text |-> processing_failed \o message] >>,
     logs |-> << error_prefix \o message >>]

\* what a call does: return, or raise an exception with this str(e)
Outcomes ==
    {[raises |-> FALSE, message |-> <<>>]}
    \cup {[raises |-> TRUE, message |-> m] : m \in ExcMessages}

Init ==
    /\ pc = "idle"
    /\ config \in Configs
    /\ request = Unbound
    /\ pdf_data = NoData
    /\ tmp_file = "absent"
    /\ created = FALSE
    /\ tables = Unbound
    /\ text_blocks = Unbound
    /\ extraction_method = Unbound
    /\ result = Unbound
    /\ exc = NoExc
    /\ calls = {}
    /\ response = Unbound
    /\ arg = Unbound
    /\ res = Unbound
    /\ res2 = Unbound

\* a POST /process-pdf arrives
Receive ==
    /\ pc = "idle"
    /\ request' \in Requests
    /\ pc' = "get_source"
    /\ UNCHANGED <<config, pdf_data, tmp_file, created, tables, text_blocks,
                   extraction_method, result, exc, calls, response>>
    /\ UNCHANGED fnVars

\* lines 49-55. request.json of a body that is not JSON is None, or raises,
\* depending on the Flask release: 'pdf_url' in request.json raises either
\* way, inside the try of line 47
GetSource ==
    /\ pc = "get_source"
    /\ IF request.content_type # "json"
       THEN /\ exc' \in ExcMessages
            /\ pc' = "except"
            /\ UNCHANGED <<pdf_data, response>>
       ELSE IF request.pdf_url
       THEN /\ pc' = "download"
            /\ UNCHANGED <<pdf_data, response, exc>>
       ELSE IF request.pdf_file
       THEN /\ pdf_data' = request.size
            /\ pc' = "size_check"
            /\ UNCHANGED <<response, exc>>
       ELSE /\ response' = [status |-> 400, body |-> [error |-> no_pdf_provided]]
            /\ pc' = "done"
            /\ UNCHANGED <<pdf_data, exc>>
    /\ UNCHANGED <<config, request, tmp_file, created, tables, text_blocks,
                   extraction_method, result, calls>>
    /\ UNCHANGED fnVars

\* lines 51, 123-127: requests.get or raise_for_status raises, or the
\* content is returned
Download ==
    /\ pc = "download"
    /\ \E o \in Outcomes :
        IF o.raises
        THEN /\ exc' = o.message
             /\ pc' = "except"
             /\ UNCHANGED pdf_data
        ELSE /\ pdf_data' = request.size
             /\ pc' = "size_check"
             /\ UNCHANGED exc
    /\ UNCHANGED <<config, request, tmp_file, created, tables, text_blocks,
                   extraction_method, result, calls, response>>
    /\ UNCHANGED fnVars

\* line 58: if len(pdf_data) > MAX_PDF_SIZE
too_large(data_len) == data_len > MAX_PDF_SIZE

\* lines 58-63
SizeCheck ==
    /\ pc = "size_check"
    /\ IF too_large(pdf_data)
       THEN /\ response' =
                [status |-> 413,
                 body |-> [error |-> pdf_too_large \o str_of_int(pdf_data) \o bytes_gt
                                     \o str_of_int(MAX_PDF_SIZE) \o limit_suffix]]
            /\ pc' = "done"
       ELSE /\ pc' = "save"
            /\ UNCHANGED response
    /\ UNCHANGED <<config, request, pdf_data, tmp_file, created, tables, text_blocks,
                   extraction_method, result, exc, calls>>
    /\ UNCHANGED fnVars

\* lines 66-68: NamedTemporaryFile(delete=False) creates the file, or
\* raises; tmp_file.write then writes, or raises. The with statement closes
\* the file and, with delete=False, leaves it on disk
SaveTemp ==
    /\ pc = "save"
    /\ \E create \in Outcomes, write \in Outcomes :
        IF create.raises
        THEN /\ exc' = create.message
             /\ pc' = "except"
             /\ UNCHANGED <<tmp_file, created>>
        ELSE IF write.raises
        THEN /\ tmp_file' = "present"
             /\ created' = TRUE
             /\ exc' = write.message
             /\ pc' = "except"
        ELSE /\ tmp_file' = "present"
             /\ created' = TRUE
             /\ pc' = "extract_tables"
             /\ UNCHANGED exc
    /\ UNCHANGED <<config, request, pdf_data, tables, text_blocks,
                   extraction_method, result, calls, response>>
    /\ UNCHANGED fnVars

\* line 72, inside the try of line 70: the extractor returns its tables; a
\* raise of the call itself leaves through the finally of line 106
ExtractTables ==
    /\ pc = "extract_tables"
    /\ calls' = calls \cup {"tabula"}
    /\ \E o \in Outcomes, read_pdf \in ProcTabulaInputs :
        IF o.raises
        THEN /\ exc' = o.message
             /\ pc' = "finally"
             /\ UNCHANGED tables
        ELSE /\ tables' = extract_tables_with_tabula(read_pdf)
             /\ pc' = "extract_text"
             /\ UNCHANGED exc
    /\ UNCHANGED <<config, request, pdf_data, tmp_file, created, text_blocks,
                   extraction_method, result, response>>
    /\ UNCHANGED fnVars

\* lines 76-87
ExtractText ==
    /\ pc = "extract_text"
    /\ LET backend == selected_backend(config)
       IN  /\ calls' = calls \cup {backend}
           /\ \E o \in Outcomes, doc \in ProcDocs(backend) :
               IF o.raises
               THEN /\ exc' = o.message
                    /\ pc' = "finally"
                    /\ UNCHANGED <<text_blocks, extraction_method>>
               ELSE /\ text_blocks' = extract_text(backend, doc)
                    /\ extraction_method' = composite_tag(backend)
                    /\ pc' = "build"
                    /\ UNCHANGED exc
    /\ UNCHANGED <<config, request, pdf_data, tmp_file, created, tables,
                   result, response>>
    /\ UNCHANGED fnVars

\* lines 90-104: the envelope is built and is the value to return once the
\* finally of line 106 has run; or building it raises
BuildResult ==
    /\ pc = "build"
    /\ \E o \in Outcomes :
        IF o.raises
        THEN /\ exc' = o.message
             /\ UNCHANGED result
        ELSE /\ result' = build_result(pdf_data, tables, text_blocks, extraction_method)
             /\ UNCHANGED exc
    /\ pc' = "finally"
    /\ UNCHANGED <<config, request, pdf_data, tmp_file, created, tables, text_blocks,
                   extraction_method, calls, response>>
    /\ UNCHANGED fnVars

\* lines 106-108: os.unlink(pdf_path) removes the file, and the pending
\* return or exception goes on; or os.unlink raises, removing nothing, and
\* its exception replaces what was pending
Cleanup ==
    /\ pc = "finally"
    /\ \E o \in Outcomes :
        IF o.raises
        THEN /\ exc' = o.message
             /\ pc' = "except"
             /\ UNCHANGED <<tmp_file, response>>
        ELSE /\ tmp_file' = "absent"
             /\ IF exc # NoExc
                THEN /\ pc' = "except"
                     /\ UNCHANGED response
                ELSE /\ response' = [status |-> 200, body |-> result]
                     /\ pc' = "done"
             /\ UNCHANGED exc
    /\ UNCHANGED <<config, request, pdf_data, created, tables, text_blocks,
                   extraction_method, result, calls>>
    /\ UNCHANGED fnVars

\* lines 110-121: exc keeps the exception that was handled
HandleException ==
    /\ pc = "except"
    /\ response' = [status |-> 500, body |-> degraded_envelope(exc)]
    /\ pc' = "done"
    /\ UNCHANGED <<config, request, pdf_data, tmp_file, created, tables, text_blocks,
                   extraction_method, result, exc, calls>>
    /\ UNCHANGED fnVars

Next ==
    \/ Receive
    \/ GetSource
    \/ Download
    \/ SizeCheck
    \/ SaveTemp
    \/ ExtractTables
    \/ ExtractText
    \/ BuildResult
    \/ Cleanup
    \/ HandleException

Spec == Init /\ [][Next]_vars

\* the request names a PDF: a URL in the JSON body, or a file in the form
HasSource == request.pdf_url \/ request.pdf_file

\* the PDF bytes reached the service: uploaded in the form, or downloaded
Delivered == request.pdf_file \/ pdf_data # NoData

\* C1: once the temporary file has been created, no final state of the
\* request leaves it on disk, whatever writing, extraction, scoring and
\* response building do.
C1_TempFileDeleted == (pc = "done" /\ created) => tmp_file = "absent"

\* C2: an input of MAX_PDF_SIZE bytes or more is answered 413, no extractor
\* is invoked and no temporary file is left behind.
C2_OversizeRejected ==
    (pc = "done" /\ Delivered /\ request.size >= MAX_PDF_SIZE) =>
        /\ response.status = 413
        /\ calls = {}
        /\ tmp_file = "absent"

\* the quality of lines 517-525 in ten-thousandths, from the three counts
QualityOf(blocks, tabs, substantial) ==
    LET Least(a, b) == IF a < b THEN a ELSE b
    IN  IF blocks = 0 /\ tabs = 0 THEN 0
        ELSE 3 * Least(ScoreOne, 100 * blocks) + 4 * Least(ScoreOne, 200 * tabs)
             + 3 * Least(ScoreOne, 125 * substantial)

\* C3: for a non-empty input under the size limit the caller receives an
\* envelope (status 200 or 500) with pages >= 1 and extraction_quality in
\* [0,1]; in the 200 envelope pages = max(1, number of text blocks) and the
\* quality is 0.3*min(1,blocks/10) + 0.4*min(1,tables/5)
\* + 0.3*min(1,substantial/8).
C3_EnvelopeBounds ==
    /\ (pc = "done" /\ HasSource /\ request.size > 0 /\ request.size < MAX_PDF_SIZE) =>
           response.status \in {200, 500}
    /\ (pc = "done" /\ response.status \in {200, 500}) =>
           /\ response.body.pages >= 1
           /\ response.body.extraction_quality >= 0
           /\ response.body.extraction_quality <= QualityOne
    /\ (pc = "done" /\ response.status = 200) =>
           LET blocks == response.body.text_blocks
               substantial == {i \in 1..Len(blocks) : Len(blocks[i].text) > 100}
           IN  /\ response.body.pages >= Len(blocks)
               /\ response.body.pages = 1 \/ response.body.pages = Len(blocks)
               /\ response.body.extraction_quality =
                      QualityOf(Len(blocks), Len(response.body.tables),
                                Cardinality(substantial))

\* a one-byte input answered 200 with every score over its cap: 11 blocks,
\* all substantial, and 6 tables
C3_AllScoresCapped ==
    /\ pc = "done"
    /\ request.size = 1
    /\ response.status = 200
    /\ Len(response.body.text_blocks) = 11
    /\ Len(response.body.tables) = 6
    /\ \A i \in 1..11 : Len(response.body.text_blocks[i].text) > 100
    /\ response.body.pages = 11
    /\ response.body.extraction_quality = QualityOne

\* C4: a request with neither pdf_url nor pdf_data is answered 400
\* {"error": "No PDF provided"}, JSON or multipart alike, and no extraction
\* is attempted.
C4_MissingSource ==
    (pc = "done" /\ ~HasSource) =>
        /\ response.status = 400
        /\ response.body = [error |-> no_pdf_provided]
        /\ calls = {}

\* C5: an exception raised anywhere in process_pdf ends in a 500 whose body
\* is the degraded envelope: pages 1, quality 0, no tables, exactly one text
\* block, tagged extraction_method = "error", and logs holding the message.
C5_DegradedEnvelope ==
    (pc = "done" /\ exc # NoExc) =>
        /\ response.status = 500
        /\ response.body.pages = 1
        /\ response.body.extraction_quality = 0
        /\ response.body.tables = <<>>
        /\ Len(response.body.text_blocks) = 1
        /\ "extraction_method" \in DOMAIN response.body.text_blocks[1]
        /\ response.body.text_blocks[1].extraction_method = "error"
        /\ \E i \in 1..Len(response.body.logs) : str_contains(exc, response.body.logs[i])

====
